---- MODULE Spec2Model ----
(***************************************************************************)
(* The patch command group of registers-cli (registers/commands/patch.py): *)
(* `create` and `apply` read the RSF log, build a register, build and      *)
(* validate a patch, and `_apply` appends the patch to the log file.       *)
(*                                                                         *)
(* The log file is modelled as its text: a sequence of tokens, where a     *)
(* token is an operation name, a field value, a tab or a newline.          *)
(***************************************************************************)
EXTENDS Integers, Sequences, FiniteSets, TLC

\* ---------------------------------------------------------------- bounds
MaxKey == 2
MaxValue == 1
MaxTime == 2
MaxRows == 2
MaxPatchCmds == 2

Keys == 1..MaxKey
\* a cell of the tabular file; 0 is a cell that does not coerce to the datatype
Values == 0..MaxValue
Times == 1..MaxTime

\* ---------------------------------------------------------------- text
Tok(k, n) == [k |-> k, n |-> n]
Tab == Tok("\t", 0)
NL == Tok("\n", 0)
Val(n) == Tok("val", n)
OpNames == {"define-register", "define-field", "add-item", "append-entry"}

\* ---------------------------------------------------------------- commands
Command(o, k, v, t, h) == [op |-> o, key |-> k, value |-> v, ts |-> t, hash |-> h]
DefineRegister == Command("define-register", 0, 0, 0, 0)
DefineField == Command("define-field", 0, 0, 0, 0)
AddItem(k, v) == Command("add-item", k, v, 0, 0)
AppendEntry(k, t, h) == Command("append-entry", k, 0, t, h)

\* content addressing: the hash of a blob is a function of its field values
Digest(k, v) == k * (MaxValue + 1) + v

\* str(cmd): the RSF line of a command, without the line terminator
Str(cmd) ==
  CASE cmd.op \in {"define-register", "define-field"} -> <<Tok(cmd.op, 0)>>
    [] cmd.op = "add-item" ->
         <<Tok("add-item", 0), Tab, Val(cmd.key), Tab, Val(cmd.value)>>
    [] cmd.op = "append-entry" ->
         <<Tok("append-entry", 0), Tab, Val(cmd.key), Tab, Val(cmd.ts),
           Tab, Val(cmd.hash)>>

\* [f"{cmd}\n" for cmd in commands], concatenated as writelines writes them
RECURSIVE Lines(_)
Lines(commands) ==
  IF commands = <<>> THEN <<>>
  ELSE Str(Head(commands)) \o <<NL>> \o Lines(Tail(commands))

\* str.split(sep): n separators give n + 1 segments
RECURSIVE Split(_, _, _, _)
Split(text, sep, done, current) ==
  IF text = <<>> THEN Append(done, current)
  ELSE IF Head(text) = sep
       THEN Split(Tail(text), sep, Append(done, current), <<>>)
       ELSE Split(Tail(text), sep, done, Append(current, Head(text)))

\* the lines of a text file: a final line needs no terminator
ReadLines(text) ==
  LET segs == Split(text, NL, <<>>, <<>>)
  IN  IF segs[Len(segs)] = <<>> THEN SubSeq(segs, 1, Len(segs) - 1) ELSE segs

Arity(o) ==
  CASE o \in {"define-register", "define-field"} -> 0
    [] o = "add-item" -> 2
    [] o = "append-entry" -> 3
    [] OTHER -> 0

\* rsf.parse_command: one line to one command, or a format error
ParseCommand(line) ==
  LET fields == Split(line, Tab, <<>>, <<>>)
      wellFormed ==
        /\ \A i \in 1..Len(fields) : Len(fields[i]) = 1
        /\ fields[1][1].k \in OpNames
        /\ Len(fields) = Arity(fields[1][1].k) + 1
        /\ \A i \in 2..Len(fields) : fields[i][1].k = "val"
      o == fields[1][1].k
      f(i) == fields[i + 1][1].n
  IN  IF ~wellFormed THEN [ok |-> FALSE, cmd |-> DefineRegister]
      ELSE [ok |-> TRUE,
            cmd |-> CASE o = "define-register" -> DefineRegister
                      [] o = "define-field" -> DefineField
                      [] o = "add-item" -> AddItem(f(1), f(2))
                      [] o = "append-entry" -> AppendEntry(f(1), f(2), f(3))]

\* rsf.read: the whole file, line by line; fails on the first malformed line
Read(text) ==
  LET lines == ReadLines(text)
      parsed == [i \in 1..Len(lines) |-> ParseCommand(lines[i])]
  IN  IF \A i \in 1..Len(lines) : parsed[i].ok
      THEN [ok |-> TRUE, cmds |-> [i \in 1..Len(lines) |-> parsed[i].cmd]]
      ELSE [ok |-> FALSE, cmds |-> <<>>]

\* ---------------------------------------------------------------- register
NoEntry == [ts |-> 0, hash |-> 0]
EmptyRegister ==
  [name |-> FALSE, fields |-> FALSE, items |-> {},
   entries |-> [k \in Keys |-> NoEntry], count |-> 0]

\* register.is_ready(): the schema is fully defined
IsReady(reg) == reg.name /\ reg.fields

\* one step of the replay fold: the register after cmd, or the reason it fails
Collect(reg, cmd) ==
  CASE cmd.op = "define-register" ->
         [ok |-> TRUE, err |-> "",
          reg |-> [reg EXCEPT !.name = TRUE, !.count = @ + 1]]
    [] cmd.op = "define-field" ->
         [ok |-> TRUE, err |-> "",
          reg |-> [reg EXCEPT !.fields = TRUE, !.count = @ + 1]]
    [] cmd.op = "add-item" ->
         IF ~IsReady(reg) THEN [ok |-> FALSE, err |-> "SchemaNotReady", reg |-> reg]
         ELSE IF cmd.key \notin Keys \/ cmd.value \notin 1..MaxValue
         THEN [ok |-> FALSE, err |-> "Type", reg |-> reg]
         ELSE [ok |-> TRUE, err |-> "",
               reg |-> [reg EXCEPT !.items = @ \cup {Digest(cmd.key, cmd.value)},
                                   !.count = @ + 1]]
    [] cmd.op = "append-entry" ->
         IF ~IsReady(reg) THEN [ok |-> FALSE, err |-> "SchemaNotReady", reg |-> reg]
         ELSE IF cmd.key \notin Keys
         THEN [ok |-> FALSE, err |-> "PrimaryKey", reg |-> reg]
         ELSE IF cmd.hash \notin reg.items
         THEN [ok |-> FALSE, err |-> "MissingItem", reg |-> reg]
         ELSE IF cmd.ts < reg.entries[cmd.key].ts
         THEN [ok |-> FALSE, err |-> "OutOfOrder", reg |-> reg]
         ELSE [ok |-> TRUE, err |-> "",
               reg |-> [reg EXCEPT !.entries[cmd.key] =
                                      [ts |-> cmd.ts, hash |-> cmd.hash],
                                   !.count = @ + 1]]

\* Register(cmds): a strict left fold that stops at the first failing command
RECURSIVE Replay(_, _)
Replay(reg, commands) ==
  IF commands = <<>> THEN [ok |-> TRUE, reg |-> reg]
  ELSE LET r == Collect(reg, Head(commands))
       IN  IF r.ok THEN Replay(r.reg, Tail(commands))
           ELSE [ok |-> FALSE, reg |-> EmptyRegister]

Register(commands) == Replay(EmptyRegister, commands)

\* register.apply(patch): every command is checked against the register plus
\* the commands of the patch accepted before it; all errors are collected
RECURSIVE Validate(_, _, _)
Validate(reg, commands, errs) ==
  IF commands = <<>> THEN [reg |-> reg, errors |-> errs]
  ELSE LET r == Collect(reg, Head(commands))
       IN  IF r.ok THEN Validate(r.reg, Tail(commands), errs)
           ELSE Validate(reg, Tail(commands), Append(errs, r.err))

RegisterApply(reg, commands) ==
  LET v == Validate(reg, commands, <<>>)
  IN  [errors |-> v.errors,
       reg |-> IF v.errors = <<>> THEN v.reg ELSE reg]

\* ---------------------------------------------------------------- patch
\* xsv.deserialise: the rows as blobs, in input order; fails on a bad cell
Deserialise(rows) ==
  IF \E i \in 1..Len(rows) : rows[i].value \notin 1..MaxValue
  THEN [ok |-> FALSE, blobs |-> <<>>]
  ELSE [ok |-> TRUE, blobs |-> rows]

\* Patch(schema, blobs, timestamp): add-item then append-entry for each blob
RECURSIVE PatchFromBlobs(_, _)
PatchFromBlobs(blobs, stamp) ==
  IF blobs = <<>> THEN <<>>
  ELSE LET b == Head(blobs)
       IN  <<AddItem(b.key, b.value),
             AppendEntry(b.key, stamp, Digest(b.key, b.value))>>
           \o PatchFromBlobs(Tail(blobs), stamp)

\* Patch(schema, commands): the commands as given
PatchFromCommands(commands) == commands

NoPatch == [built |-> FALSE, commands |-> <<>>]
NoResult == [kind |-> "none", added_commands_number |-> 0, commands |-> <<>>]
NoRead == [ok |-> FALSE, cmds |-> <<>>]

\* ---------------------------------------------------------------- inputs
SeqsUpTo(S, n) == UNION {[1..m -> S] : m \in 0..n}

Rows == SeqsUpTo([key : Keys, value : Values], MaxRows)

PatchCommands ==
  {DefineRegister, DefineField}
  \cup {AddItem(k, v) : k \in Keys, v \in Values}
  \cup {AppendEntry(k, t, Digest(k, v)) : k \in Keys, t \in Times, v \in 1..MaxValue}

\* patch files: well-formed ones, one with an unterminated last line, and a
\* malformed one
PatchTexts ==
  {Lines(cs) : cs \in SeqsUpTo(PatchCommands, MaxPatchCmds)}
  \cup {Str(AddItem(1, 1))}
  \cup {<<Tok("add-item", 0), Tab, Val(1)>>}

\* the log files an invocation can be given
InitialLogs ==
  { <<>>,
    Lines(<<DefineRegister>>),
    Lines(<<DefineRegister, DefineField>>),
    Lines(<<DefineRegister>>) \o Str(DefineField),
    Lines(<<DefineRegister, DefineField, AddItem(1, 1),
            AppendEntry(1, 1, Digest(1, 1))>>),
    Lines(<<DefineRegister, DefineField, AddItem(1, 1),
            AppendEntry(1, 1, Digest(1, 1)),
            AppendEntry(1, MaxTime, Digest(1, 1))>>),
    Lines(<<DefineRegister, DefineField, AddItem(1, 1)>>)
      \o Str(AppendEntry(1, MaxTime, Digest(1, 1))),
    Lines(<<AddItem(1, 1)>>),
    Lines(<<DefineRegister, DefineField>>) \o <<Tok("append-entry", 0), NL>> }

\* ---------------------------------------------------------------- state
VARIABLES
  file,        \* the text of the RSF log file
  pc,          \* where the current invocation is
  op,          \* "create" or "apply"
  xsv,         \* create: the rows of xsv_file
  timestamp,   \* create: the --timestamp option
  apply_flag,  \* create: the --apply option
  patch_file,  \* apply: the text of patch_file
  cmds,        \* the result of rsf.read(rsf_file)
  register,    \* the register built from cmds
  schema,      \* register.schema(), once extracted
  patch,       \* the patch, once built
  errors,      \* the result of register.apply(patch)
  result,      \* what the invocation returns
  written,     \* _apply: lines of the patch that reached the file
  file0,       \* history: the log file when the invocation started
  regBefore,   \* history: the register when register.apply was called
  trace        \* history: the steps the invocation has taken, in order

vars == <<file, pc, op, xsv, timestamp, apply_flag, patch_file, cmds,
          register, schema, patch, errors, result, written, file0, regBefore,
          trace>>

inputs == <<op, xsv, timestamp, apply_flag, patch_file>>

Terminal == {"returned", "raised", "exit1", "killed"}

Init ==
  /\ file \in InitialLogs
  /\ pc = "idle"
  /\ op = "create"
  /\ xsv = <<>>
  /\ timestamp = 1
  /\ apply_flag = FALSE
  /\ patch_file = <<>>
  /\ cmds = NoRead
  /\ register = EmptyRegister
  /\ schema = FALSE
  /\ patch = NoPatch
  /\ errors = <<>>
  /\ result = NoResult
  /\ written = 0
  /\ file0 = file
  /\ regBefore = EmptyRegister
  /\ trace = <<>>

\* the command is invoked with its arguments: one process per invocation
Enter(o, rows, stamp, flag, text) ==
  /\ pc' = "read"
  /\ op' = o
  /\ xsv' = rows
  /\ timestamp' = stamp
  /\ apply_flag' = flag
  /\ patch_file' = text
  /\ UNCHANGED <<file, cmds, register, schema, patch, errors, result, written,
                 file0, regBefore, trace>>

StartCreate ==
  /\ pc = "idle"
  /\ \E rows \in Rows, stamp \in Times, flag \in BOOLEAN :
       Enter("create", rows, stamp, flag, <<>>)

StartApply ==
  /\ pc = "idle"
  /\ \E text \in PatchTexts : Enter("apply", <<>>, 1, TRUE, text)

\* cmds = rsf.read(rsf_file); register = Register(cmds)
ReadLog ==
  /\ pc = "read"
  /\ LET r == Read(file)
         built == Register(r.cmds)
     IN  /\ cmds' = r
         /\ IF r.ok /\ built.ok
            THEN /\ register' = built.reg
                 /\ pc' = "check_readiness"
            ELSE /\ register' = register
                 /\ pc' = "raised"
  /\ trace' = Append(trace, "read")
  /\ UNCHANGED <<file, inputs, schema, patch, errors, result, written,
                 file0, regBefore>>

\* CheckReadiness, but the outcome of the check is not acted upon
CheckReadinessSkipped ==
  /\ pc = "check_readiness"
  /\ pc' = "schema"
  /\ trace' = Append(trace, "check_readiness")
  /\ UNCHANGED <<file, inputs, cmds, register, schema, patch, errors,
                 result, written, file0, regBefore>>

\* utils.check_readiness(register)
CheckReadiness ==
  /\ pc = "check_readiness"
  /\ pc' = IF IsReady(register) THEN "schema" ELSE "raised"
  /\ trace' = Append(trace, "check_readiness")
  /\ UNCHANGED <<file, inputs, cmds, register, schema, patch, errors,
                 result, written, file0, regBefore>>

\* schema = register.schema()
Schema ==
  /\ pc = "schema"
  /\ schema' = IsReady(register)
  /\ pc' = "build"
  /\ trace' = Append(trace, "schema")
  /\ UNCHANGED <<file, inputs, cmds, register, patch, errors, result,
                 written, file0, regBefore>>

\* create: blobs = xsv.deserialise(handle, schema); patch = Patch(schema, blobs, timestamp)
BuildFromXsv ==
  /\ pc = "build"
  /\ op = "create"
  /\ LET d == Deserialise(xsv)
     IN  IF d.ok
         THEN /\ patch' = [built |-> TRUE,
                           commands |-> PatchFromBlobs(d.blobs, timestamp)]
              /\ pc' = "validate"
         ELSE /\ patch' = patch
              /\ pc' = "raised"
  /\ trace' = Append(trace, "build")
  /\ UNCHANGED <<file, inputs, cmds, register, schema, errors, result,
                 written, file0, regBefore>>

\* the commands with every entry stamped anew
Restamp(commands, stamp) ==
  [i \in 1..Len(commands) |->
     IF commands[i].op = "append-entry"
     THEN [commands[i] EXCEPT !.ts = stamp] ELSE commands[i]]

\* BuildFromRsf, but a timestamp is given to Patch, as in create
BuildFromRsfStamped ==
  /\ pc = "build"
  /\ op = "apply"
  /\ LET r == Read(patch_file)
     IN  IF r.ok
         THEN /\ patch' = [built |-> TRUE,
                           commands |-> Restamp(r.cmds, timestamp)]
              /\ pc' = "validate"
         ELSE /\ patch' = patch
              /\ pc' = "raised"
  /\ trace' = Append(trace, "build")
  /\ UNCHANGED <<file, inputs, cmds, register, schema, errors, result,
                 written, file0, regBefore>>

\* apply: patch_cmds = rsf.read(patch_file); patch = Patch(schema, patch_cmds)
BuildFromRsf ==
  /\ pc = "build"
  /\ op = "apply"
  /\ LET r == Read(patch_file)
     IN  IF r.ok
         THEN /\ patch' = [built |-> TRUE,
                           commands |-> PatchFromCommands(r.cmds)]
              /\ pc' = "validate"
         ELSE /\ patch' = patch
              /\ pc' = "raised"
  /\ trace' = Append(trace, "build")
  /\ UNCHANGED <<file, inputs, cmds, register, schema, errors, result,
                 written, file0, regBefore>>

\* errors = register.apply(patch)
RegisterApplyStep ==
  /\ pc = "validate"
  /\ LET a == RegisterApply(register, patch.commands)
     IN  /\ errors' = a.errors
         /\ register' = a.reg
  /\ regBefore' = register
  /\ pc' = "errors"
  /\ trace' = Append(trace, "validate")
  /\ UNCHANGED <<file, inputs, cmds, schema, patch, result, written,
                 file0>>

\* Branch, but a patch with errors is still committed
BranchApplyOnErrors(errs, o, flag) ==
  IF o = "apply" \/ flag THEN "_apply" ELSE "return_commands"

\* Branch, but a patch with errors is returned instead of exiting
BranchReturnOnErrors(errs, o, flag) ==
  IF o = "apply" \/ flag THEN (IF errs # <<>> THEN "exit1" ELSE "_apply")
  ELSE "return_commands"

\* Branch, but the apply flag is not consulted
BranchAlwaysApply(errs, o, flag) ==
  IF errs # <<>> THEN "exit1" ELSE "_apply"

\* the branch a validated patch takes: exit(1), _apply, or return patch.commands
Branch(errs, o, flag) ==
  IF errs # <<>> THEN "exit1"
  ELSE IF o = "apply" \/ flag THEN "_apply"
  ELSE "return_commands"

\* if errors: ... exit(1); if apply_flag: return _apply(...); return patch.commands
CheckErrors ==
  /\ pc = "errors"
  /\ LET b == Branch(errors, op, apply_flag)
     IN  /\ pc' = IF b = "exit1" THEN "exit1"
                  ELSE IF b = "_apply" THEN "open" ELSE "returned"
         /\ result' = IF b = "return_commands"
                      THEN [kind |-> "commands", added_commands_number |-> 0,
                            commands |-> patch.commands]
                      ELSE result
  /\ trace' = Append(trace, "errors")
  /\ UNCHANGED <<file, inputs, cmds, register, schema, patch, errors,
                 written, file0, regBefore>>

\* Open, but the append is attempted a second time
OpenRetried ==
  /\ pc = "open"
  /\ pc' = IF Len(trace) < 7 THEN "open" ELSE "write"
  /\ trace' = Append(trace, "append")
  /\ UNCHANGED <<file, inputs, cmds, register, schema, patch, errors,
                 result, written, file0, regBefore>>

\* _apply: open(rsf_file, "a")
Open ==
  /\ pc = "open"
  /\ pc' = "write"
  /\ trace' = Append(trace, "append")
  /\ UNCHANGED <<file, inputs, cmds, register, schema, patch, errors,
                 result, written, file0, regBefore>>

\* Chunk, but the last line of the chunk is not terminated
ChunkDropsTerminator(commands, from, to) ==
  LET text == Lines(SubSeq(commands, from + 1, to))
  IN  SubSeq(text, 1, Len(text) - 1)

\* the text of lines from+1 .. to of the patch, as writelines writes it
Chunk(commands, from, to) == Lines(SubSeq(commands, from + 1, to))

\* AppendTo, but the file was opened in mode "w"
AppendToTruncated(text, chunk) == chunk

\* what a write in append mode does to the file
AppendTo(text, chunk) == text \o chunk

\* _apply: handle.writelines([...]) and the close of the handle. The buffered
\* text reaches the file in one or more writes, each at the end of the file.
Write ==
  /\ pc = "write"
  /\ written < Len(patch.commands)
  /\ \E to \in (written + 1)..Len(patch.commands) :
       /\ file' = AppendTo(file, Chunk(patch.commands, written, to))
       /\ written' = to
  /\ UNCHANGED <<pc, inputs, cmds, register, schema, patch, errors,
                 result, file0, regBefore, trace>>

Summary(commands) ==
  [kind |-> "summary", added_commands_number |-> Len(commands),
   commands |-> <<>>]

\* _apply: summary = {...}; return summary
Return ==
  /\ pc = "write"
  /\ written = Len(patch.commands)
  /\ result' = Summary(patch.commands)
  /\ pc' = "returned"
  /\ UNCHANGED <<file, inputs, cmds, register, schema, patch, errors,
                 written, file0, regBefore, trace>>

\* the process is terminated from outside, at any point of an invocation
Terminate ==
  /\ pc \notin Terminal \cup {"idle"}
  /\ pc' = "killed"
  /\ UNCHANGED <<file, inputs, cmds, register, schema, patch, errors,
                 result, written, file0, regBefore, trace>>

Next ==
  \/ StartCreate
  \/ StartApply
  \/ ReadLog
  \/ CheckReadiness
  \/ Schema
  \/ BuildFromXsv
  \/ BuildFromRsf
  \/ RegisterApplyStep
  \/ CheckErrors
  \/ Open
  \/ Write
  \/ Return

Spec == Init /\ [][Next]_vars

NextKill == Next \/ Terminate

SpecKill == Init /\ [][NextKill]_vars

\* ---------------------------------------------------------------- properties
InTrace(step) == \E i \in 1..Len(trace) : trace[i] = step

Count(step) == Cardinality({i \in 1..Len(trace) : trace[i] = step})

IsPrefix(a, b) == Len(a) <= Len(b) /\ SubSeq(b, 1, Len(a)) = a

Committed == pc = "returned" /\ result.kind = "summary"

\* C1: the log is appended to only after register.apply(patch) has returned an
\* empty error list: whenever the append has been started or the log differs
\* from what the invocation found, validation has run and left no errors, and
\* the append is the last step the invocation takes.
C1_AppendOnlyAfterValidation ==
  (InTrace("append") \/ file # file0) =>
    /\ InTrace("validate")
    /\ errors = <<>>
    /\ trace[Len(trace)] = "append"
    /\ \A i \in 1..Len(trace) - 1 : trace[i] # "append"
    /\ pc \in {"write", "returned"}

C1_Witness ==
  /\ pc = "returned"
  /\ InTrace("append")
  /\ file # file0
  /\ op = "create"

C3_ErrorsAreTerminal ==
  errors # <<>> =>
    /\ pc \in {"errors", "exit1"}
    /\ file = file0
    /\ register = regBefore
    /\ ~InTrace("append")
    /\ result = NoResult

C3_Witness ==
  /\ pc = "exit1"
  /\ Len(errors) >= 2
  /\ file = file0

C5_CreateWithoutApply ==
  (pc # "idle" /\ op = "create" /\ ~apply_flag) =>
    /\ file = file0
    /\ ~InTrace("append")
    /\ pc = "returned" =>
         /\ result.kind = "commands"
         /\ result.commands = patch.commands
         /\ errors = <<>>

C5_Witness ==
  /\ pc = "returned"
  /\ op = "create"
  /\ ~apply_flag
  /\ Len(result.commands) >= 2

\* C6: after a commit, replaying the extended log gives the register that
\* applying the patch in memory gave.
C6_ReplayEqualsApply ==
  Committed =>
    LET r == Read(file)
    IN  /\ r.ok
        /\ Register(r.cmds).ok
        /\ Register(r.cmds).reg = register

\* C7: apply builds the patch from the commands of the patch file as they are,
\* and a commit appends exactly those commands, in their order and with their
\* own timestamps.
C7_ApplyTakesCommandsAsGiven ==
  (op = "apply" /\ patch.built) =>
    /\ patch.commands = Read(patch_file).cmds
    /\ Committed => file = file0 \o Lines(Read(patch_file).cmds)

C7_Witness ==
  /\ op = "apply"
  /\ Committed
  /\ \E i, j \in 1..Len(patch.commands) :
       /\ patch.commands[i].op = "append-entry"
       /\ patch.commands[j].op = "append-entry"
       /\ patch.commands[i].ts # patch.commands[j].ts

\* C8: if the process terminates at any point of an invocation, the log holds
\* none of the patch's commands or all of them.
C8_NoPartialPatch ==
  pc = "killed" =>
    \/ file = file0
    \/ file = file0 \o Lines(patch.commands)

\* C9: the readiness check precedes schema extraction, patch construction,
\* validation and commit; when the log cannot be read or replayed, or the
\* register is not ready, the invocation fails with no patch built or
\* validated and nothing appended.
C9_ReadinessFirst ==
  /\ (schema \/ patch.built \/ InTrace("build") \/ InTrace("validate")
        \/ InTrace("append")) =>
       /\ Len(trace) >= 2
       /\ trace[1] = "read"
       /\ trace[2] = "check_readiness"
       /\ cmds.ok
       /\ IsReady(register)
  /\ (pc = "raised" /\ ~IsReady(register)) =>
       /\ ~schema
       /\ ~patch.built
       /\ ~InTrace("build")
       /\ ~InTrace("validate")
       /\ ~InTrace("append")
       /\ file = file0

C9_Witness ==
  /\ pc = "raised"
  /\ cmds.ok
  /\ Len(cmds.cmds) > 0
  /\ ~IsReady(register)
  /\ trace = <<"read", "check_readiness">>

\* C10: an invocation reads the whole log before anything else, takes no step
\* twice, and appends once when apply, or create with the apply flag,
\* succeeds, and never otherwise.
C10_ReadOnceAppendOnce ==
  /\ Len(trace) >= 1 => (trace[1] = "read" /\ cmds = Read(file0))
  /\ \A i, j \in 1..Len(trace) : trace[i] = trace[j] => i = j
  /\ (pc = "returned" /\ (op = "apply" \/ apply_flag)) => Count("append") = 1
  /\ (pc \in {"raised", "exit1"} \/ (pc = "returned" /\ op = "create" /\ ~apply_flag))
       => Count("append") = 0

C10_Witness ==
  /\ pc = "returned"
  /\ op = "apply"
  /\ Count("append") = 1
  /\ Count("read") = 1
====
